---- MODULE Spec2Model ----
(***************************************************************************)
(* Model of src/wipingEngine/wipeEngine.c (POSIX branch): the pattern      *)
(* buffers, overwrite_pass_simd, wipe_file, wipe_folder_recursive with its *)
(* worker threads, wipe_disk_raw and main.                                 *)
(*                                                                         *)
(* Scaling.  BUFFER_SIZE is 268435456 and MAX_THREADS is 64 in the source; *)
(* the model keeps their roles (chunk length, size of one join batch) and  *)
(* scales the values so that a file longer than one chunk and a directory  *)
(* with more files than one batch fit in the state space.                  *)
(*                                                                         *)
(* Environment.  Every library call whose result the code could look at    *)
(* (opendir, stat, malloc, fopen, ftello, fwrite/write, fflush/fsync,      *)
(* remove, rmdir, open, ioctl) has its outcome chosen when the call is     *)
(* made.  A call that does not do all it was asked is a fault; one run     *)
(* has at most MaxFaults faults.                                           *)
(*                                                                         *)
(* aligned_alloc and pthread_create are taken to succeed.  wipe_disk_raw   *)
(* calls overwrite_pass, which the file does not define; its passes are    *)
(* those of overwrite_pass_simd called with f == NULL (the descriptor      *)
(* branch of that function).                                               *)
(*                                                                         *)
(* Atomicity.  A pass with a fixed pattern reads a buffer nobody writes    *)
(* and writes its caller's own target, so it is one step; a pass with      *)
(* pattern 'R' is two, the regeneration of the shared g_random_buffer and  *)
(* the writes from it.  A return and what the caller does with the value   *)
(* are one step.                                                           *)
(*                                                                         *)
(* Plain char is signed or unsigned depending on the build (signed with    *)
(* the default x86 ABI the source's intrinsics target, unsigned with       *)
(* -funsigned-char): charSigned is chosen in Init.                         *)
(***************************************************************************)
EXTENDS Integers, Sequences, FiniteSets, TLC

\* ---------------------------------------------------------------- constants
BUFFER_SIZE == 2      \* #define BUFFER_SIZE (scaled chunk length)
MAX_THREADS == 2      \* #define MAX_THREADS (scaled batch size)

\* ------------------------------------------------------------------- bounds
MaxSize   == 3        \* largest file / device length, in bytes
MaxFaults == 1        \* environment faults in one run

\* Byte values of the literals the source passes as patterns.
ZERO   == 0           \* 0x00
ONES   == 255         \* 0xFF
ALT_AA == 170         \* 0xAA
ALT_55 == 85          \* 0x55
RANDOM == 82          \* 'R'
OLD    == ONES + 1    \* a byte of the data that was in the target before the wipe
RandBytes == {17, 34} \* values rand() & 0xFF yields in the model

Files   == {"f1", "f2", "f3"}
Dirs    == {"root", "sub"}
Targets == Files \cup {"disk"}
Methods == {"--clear", "--purge", "--destroy-sw", "--turbo"}
Types   == {"--file", "--folder", "--disk", "--other"}
BufNames == {"zero", "ff", "aa", "55", "random"}
\* What can go wrong while a target is wiped: its entry is skipped by the
\* directory walk, fopen/open fails, the size query fails, a write accepts
\* part of what it was given, a write or the flush fails, remove fails.
ErrKinds == {"skip", "open", "size", "short", "io", "delete"}

VARIABLES
  type,        \* argv[1]
  path,        \* argv[2] in file mode
  method,      \* argv[3]
  charSigned,  \* whether plain char is signed in this build
  where,       \* the tree: the directory each file is in ("sub" is in "root")
  mpc,         \* main's position
  result,      \* main's result (-1: not set)
  pool,        \* "uninit", "ready" or "freed"
  bufs,        \* contents of the five global buffers
  exists,      \* which files have a directory entry
  dirExists,   \* which directories exist
  content,     \* bytes of each target
  wf,          \* per target: the activation of wipe_file / wipe_disk_raw on it
  th,          \* per file: state of the worker thread created for it
  stack,       \* activations of wipe_folder_recursive, innermost last
  faults,      \* environment faults so far
  passLog,     \* per target: the calls of overwrite_pass_simd made on it
  errs,        \* per target: the failures that happened while wiping it
  removeCalled,\* files on which remove() was called
  rmdirCalled  \* directories on which rmdir() was called

vars == <<type, path, method, charSigned, where, mpc, result, pool, bufs, exists,
          dirExists, content, wf, th, stack, faults, passLog, errs,
          removeCalled, rmdirCalled>>

Min(a, b) == IF a < b THEN a ELSE b

\* ------------------------------------------------------------ pure functions

\* Conversion of an int literal to the plain char parameter `pattern`.
ToChar(v) == IF charSigned /\ v > 127 THEN v - 256 ELSE v

\* get_pattern_buffer: the switch compares the promoted char with int constants.
get_pattern_buffer(pattern) ==
  CASE pattern = 0   -> "zero"
    [] pattern = 255 -> "ff"
    [] pattern = 170 -> "aa"
    [] pattern = 85  -> "55"
    [] pattern = 82  -> "random"
    [] OTHER         -> "zero"

Pass(n, total, p) == [pass_num |-> n, total_passes |-> total, pattern |-> p]

\* WipePasses with the two alternating patterns of --destroy-sw exchanged
\* and the second pass of --purge dropped.
WipePasses_reordered(m) ==
  CASE m = "--clear"      -> << Pass(1, 1, ZERO) >>
    [] m = "--purge"      -> << Pass(1, 3, ZERO), Pass(3, 3, RANDOM) >>
    [] m = "--destroy-sw" -> << Pass(1, 7, ZERO), Pass(2, 7, ONES), Pass(3, 7, ZERO),
                                Pass(4, 7, ALT_55), Pass(5, 7, ALT_AA), Pass(6, 7, ALT_55),
                                Pass(7, 7, RANDOM) >>
    [] OTHER              -> << >>

\* The calls of overwrite_pass_simd wipe_file makes when file_size > 0.
WipePasses(m) ==
  CASE m = "--clear"      -> << Pass(1, 1, ZERO) >>
    [] m = "--purge"      -> << Pass(1, 3, ZERO), Pass(2, 3, ONES), Pass(3, 3, RANDOM) >>
    [] m = "--destroy-sw" -> << Pass(1, 7, ZERO), Pass(2, 7, ONES), Pass(3, 7, ZERO),
                                Pass(4, 7, ALT_AA), Pass(5, 7, ALT_55), Pass(6, 7, ALT_AA),
                                Pass(7, 7, RANDOM) >>
    [] OTHER              -> << >>

\* The calls of overwrite_pass wipe_disk_raw makes.
DiskPasses(m) ==
  CASE m = "--clear" -> << Pass(1, 1, ZERO) >>
    [] m = "--purge" -> << Pass(1, 3, ZERO), Pass(2, 3, ONES), Pass(3, 3, RANDOM) >>
    [] OTHER         -> << >>

Sched(t) == IF t = "disk" THEN DiskPasses(method) ELSE WipePasses(method)

\* The fill init_buffers gives each buffer (the random one is seeded later).
Fill(b) == [i \in 1..BUFFER_SIZE |-> b]

\* One fwrite/write of to_write bytes from the start of buf at offset pos,
\* of which the target accepts n.
WriteAt(c, pos, buf, n) ==
  [i \in 1..Len(c) |-> IF i > pos /\ i <= pos + n THEN buf[i - pos] ELSE c[i]]

\* The write loop of overwrite_pass_simd, lines 238-262.  st holds the
\* local total_written, the target's offset pos and its content, and counts
\* the writes that accepted some but not all bytes (short) and none (failed).
\* The result is the set of states the loop can end in, one for each way the
\* writes can be accepted, with at most `budget` short or failed writes.
\* Whatever a write accepts, total_written advances by to_write.
RECURSIVE WriteLoop(_, _, _, _)
WriteLoop(size, buf, st, budget) ==
  IF ~(st.total_written < size) THEN {st}
  ELSE LET to_write == Min(size - st.total_written, BUFFER_SIZE)
       IN UNION { WriteLoop(size, buf,
                     [total_written |-> st.total_written + to_write,
                      pos           |-> st.pos + n,
                      content       |-> WriteAt(st.content, st.pos, buf, n),
                      short         |-> st.short + (IF 0 < n /\ n < to_write THEN 1 ELSE 0),
                      failed        |-> st.failed + (IF n = 0 THEN 1 ELSE 0)],
                     budget)
                  : n \in {m \in 0..to_write :
                              m = to_write \/ st.short + st.failed < budget} }

\* ------------------------------------------------------------------- state

Idle == [pc |-> "idle", file_size |-> 0, k |-> 0, pattern |-> 0, buffer |-> "zero",
         total_written |-> 0, pos |-> 0, flushed |-> FALSE, ret |-> -1]

\* The trees of the model: every file is in "root" or in "sub", which is in "root".
Trees == [Files -> Dirs]

\* The length of each file of the tree, as ftello reports it: one longer
\* than a chunk, one shorter, one empty.
FileLen(f) == CASE f = "f1" -> MaxSize [] f = "f2" -> 1 [] OTHER -> 0

Init ==
  /\ type \in Types
  /\ path \in IF type = "--file" THEN Files ELSE {"f1"}
  /\ method \in Methods
  /\ charSigned \in BOOLEAN
  /\ where \in IF type = "--folder" THEN Trees ELSE {[f \in Files |-> "root"]}
  /\ mpc = "start"
  /\ result = -1
  /\ pool = "uninit"
  /\ bufs = [b \in BufNames |-> << >>]
  /\ exists = [f \in Files |-> TRUE]
  /\ dirExists = [d \in Dirs |-> TRUE]
  /\ content = [t \in Targets |-> << >>]
  /\ wf = [t \in Targets |-> Idle]
  /\ th = [f \in Files |-> "none"]
  /\ stack = << >>
  /\ faults = 0
  /\ passLog = [t \in Targets |-> << >>]
  /\ errs = [t \in Targets |-> {}]
  /\ removeCalled = {}
  /\ rmdirCalled = {}

\* Outcomes of a call that can fail: failing is a fault.
Outcomes == {TRUE} \cup (IF faults < MaxFaults THEN {FALSE} ELSE {})
Cost(ok) == IF ok THEN 0 ELSE 1

AddErr(ts, kind) == [t \in Targets |-> IF t \in ts THEN errs[t] \cup {kind} ELSE errs[t]]

\* ------------------------------------------------------------- wipe_file

\* wipe_file(t) returns ret to its caller: to wipe_file_thread (lines
\* 380-386), which drops the value, frees info and ends the thread, or to
\* main (line 481), which assigns it to result.
wipe_file_return(t, ret) ==
  IF th[t] = "running"
  THEN /\ th' = [th EXCEPT ![t] = "exited"]
       /\ UNCHANGED <<mpc, result>>
  ELSE /\ mpc' = "cleanup"
       /\ result' = ret
       /\ UNCHANGED th

\* wipe_file_open that goes on after a failed fopen as if the file were empty.
wipe_file_open_unchecked(t) ==
  /\ t \in Files
  /\ wf[t].pc = "open"
  /\ \E ok \in Outcomes :
       /\ wf' = [wf EXCEPT ![t].pc = "passes", ![t].file_size = IF ok THEN FileLen(t) ELSE 0]
       /\ content' = [content EXCEPT ![t] = [i \in 1..FileLen(t) |-> OLD]]
       /\ errs' = IF ok THEN errs ELSE AddErr({t}, "open")
       /\ faults' = faults + Cost(ok)
       /\ UNCHANGED <<th, mpc, result>>
  /\ UNCHANGED <<type, path, method, charSigned, where, pool, bufs, exists,
                 dirExists, stack, passLog, removeCalled, rmdirCalled>>

\* wipe_file lines 411-422: fopen, then the size by fseek/ftello (-1 when
\* ftello fails).
wipe_file_open(t) ==
  /\ t \in Files
  /\ wf[t].pc = "open"
  /\ \E ok \in Outcomes :
       IF ~ok
       THEN /\ wf' = [wf EXCEPT ![t].pc = "returned", ![t].ret = 1]
            /\ wipe_file_return(t, 1)
            /\ errs' = AddErr({t}, "open")
            /\ faults' = faults + 1
            /\ UNCHANGED content
       ELSE \E sz \in (IF faults < MaxFaults THEN {-1} ELSE {}) \cup {FileLen(t)} :
            /\ wf' = [wf EXCEPT ![t].pc = "passes", ![t].file_size = sz]
            /\ content' = [content EXCEPT ![t] = [i \in 1..FileLen(t) |-> OLD]]
            /\ errs' = IF sz < 0 THEN AddErr({t}, "size") ELSE errs
            /\ faults' = faults + (IF sz < 0 THEN 1 ELSE 0)
            /\ UNCHANGED <<th, mpc, result>>
  /\ UNCHANGED <<type, path, method, charSigned, where, pool, bufs, exists,
                 dirExists, stack, passLog, removeCalled, rmdirCalled>>

\* Whether the activation on t has another overwrite pass to call:
\* wipe_file calls them under `if (file_size > 0)`, wipe_disk_raw always.
HasPass(t) ==
  /\ wf[t].k < Len(Sched(t))
  /\ (t = "disk" \/ wf[t].file_size > 0)

\* The pass the activation on t calls next, and the plain char it receives.
NextPass(t) == Sched(t)[wf[t].k + 1]
NextPattern(t) == ToChar(NextPass(t).pattern)

\* overwrite_pass_simd lines 207-227: the buffer for the pattern and the
\* seek to offset 0.
PassEntry(t) ==
  [wf[t] EXCEPT !.pc = "writing", !.pattern = NextPattern(t),
                !.buffer = get_pattern_buffer(NextPattern(t)),
                !.total_written = 0, !.pos = 0, !.flushed = FALSE]

\* overwrite_pass_simd lines 236-275, entered with the locals w: the write
\* loop, whose results are ignored, then fflush and fsync when the target
\* is a FILE* (flushed records that they were called); the pass returns
\* nothing.
PassWrites(t, w) ==
  \E st \in WriteLoop(w.file_size, bufs[w.buffer],
                      [total_written |-> 0, pos |-> 0, content |-> content[t],
                       short |-> 0, failed |-> 0],
                      MaxFaults - faults) :
  \E flushOk \in {TRUE} \cup (IF t # "disk" /\ faults + st.short + st.failed < MaxFaults
                              THEN {FALSE} ELSE {}) :
    /\ wf' = [wf EXCEPT ![t] = [w EXCEPT !.pc = "passes", !.k = @ + 1,
                                         !.total_written = st.total_written,
                                         !.pos = st.pos, !.flushed = (t # "disk")]]
    /\ content' = [content EXCEPT ![t] = st.content]
    /\ faults' = faults + st.short + st.failed + Cost(flushOk)
    /\ errs' = [errs EXCEPT ![t] = @ \cup (IF st.short > 0 THEN {"short"} ELSE {})
                                     \cup (IF st.failed > 0 \/ ~flushOk THEN {"io"} ELSE {})]

\* One call of overwrite_pass_simd with a fixed pattern (lines 207-275):
\* it reads a buffer nobody writes and writes the caller's own target.
overwrite_pass_simd(t) ==
  /\ wf[t].pc = "passes"
  /\ HasPass(t)
  /\ NextPattern(t) # RANDOM
  /\ passLog' = [passLog EXCEPT ![t] = Append(@, NextPass(t))]
  /\ PassWrites(t, PassEntry(t))
  /\ UNCHANGED <<type, path, method, charSigned, where, mpc, result, pool, bufs, exists,
                 dirExists, th, stack, removeCalled, rmdirCalled>>

\* A call of overwrite_pass_simd with pattern 'R', up to line 234: the
\* shared g_random_buffer is regenerated.
overwrite_pass_regen(t) ==
  /\ wf[t].pc = "passes"
  /\ HasPass(t)
  /\ NextPattern(t) = RANDOM
  /\ passLog' = [passLog EXCEPT ![t] = Append(@, NextPass(t))]
  /\ wf' = [wf EXCEPT ![t] = PassEntry(t)]
  /\ \E r \in [1..BUFFER_SIZE -> RandBytes] : bufs' = [bufs EXCEPT !["random"] = r]
  /\ UNCHANGED <<type, path, method, charSigned, where, mpc, result, pool, exists, dirExists,
                 content, th, stack, faults, errs, removeCalled, rmdirCalled>>

\* The call with pattern 'R' from line 236 on: the writes from
\* g_random_buffer as it is by then.
overwrite_pass_loop(t) ==
  /\ wf[t].pc = "writing"
  /\ PassWrites(t, wf[t])
  /\ UNCHANGED <<type, path, method, charSigned, where, mpc, result, pool, bufs, exists,
                 dirExists, th, stack, passLog, removeCalled, rmdirCalled>>

\* wipe_file lines 444-451: fclose, remove(filepath) and the return value.
wipe_file_remove(t) ==
  /\ t \in Files
  /\ wf[t].pc = "passes"
  /\ ~HasPass(t)
  /\ \E ok \in Outcomes :
       /\ wf' = [wf EXCEPT ![t].pc = "returned", ![t].ret = IF ok THEN 0 ELSE 1]
       /\ wipe_file_return(t, IF ok THEN 0 ELSE 1)
       /\ exists' = [exists EXCEPT ![t] = ~ok]
       /\ content' = [content EXCEPT ![t] = IF ok THEN << >> ELSE @]
       /\ errs' = IF ok THEN errs ELSE AddErr({t}, "delete")
       /\ faults' = faults + Cost(ok)
  /\ removeCalled' = removeCalled \cup {t}
  /\ UNCHANGED <<type, path, method, charSigned, where, pool, bufs, dirExists,
                 stack, passLog, rmdirCalled>>

\* --------------------------------------------------------- wipe_disk_raw

\* wipe_disk_raw lines 387-401: open, then the size by ioctl(BLKGETSIZE64);
\* return 1 to main when either fails.
wipe_disk_open ==
  /\ wf["disk"].pc = "open"
  /\ \E ok \in Outcomes :
       IF ~ok
       THEN /\ wf' = [wf EXCEPT !["disk"].pc = "returned", !["disk"].ret = 1]
            /\ mpc' = "cleanup"
            /\ result' = 1
            /\ \E kind \in {"open", "size"} : errs' = AddErr({"disk"}, kind)
            /\ faults' = faults + 1
            /\ UNCHANGED content
       ELSE \E sz \in 0..MaxSize :
            /\ wf' = [wf EXCEPT !["disk"].pc = "passes", !["disk"].file_size = sz]
            /\ content' = [content EXCEPT !["disk"] = [i \in 1..sz |-> OLD]]
            /\ UNCHANGED <<errs, faults, mpc, result>>
  /\ UNCHANGED <<type, path, method, charSigned, where, pool, bufs, exists,
                 dirExists, th, stack, passLog, removeCalled, rmdirCalled>>

\* wipe_disk_raw lines 405-407: close and return 0 to main.
wipe_disk_close ==
  /\ wf["disk"].pc = "passes"
  /\ ~HasPass("disk")
  /\ wf' = [wf EXCEPT !["disk"].pc = "returned", !["disk"].ret = 0]
  /\ mpc' = "cleanup"
  /\ result' = 0
  /\ UNCHANGED <<type, path, method, charSigned, where, pool, bufs, exists,
                 dirExists, content, th, stack, faults, passLog, errs, removeCalled,
                 rmdirCalled>>

\* ------------------------------------------------- wipe_folder_recursive

SubDirs(d) == IF d = "root" THEN {"sub"} ELSE {}
FilesIn(d) == {f \in Files : where[f] = d}
FilesUnder(d) == FilesIn(d) \cup UNION {FilesIn(c) : c \in SubDirs(d)}
\* What readdir yields for d, "." and ".." left out.
Entries(d) == {f \in FilesIn(d) : exists[f]} \cup {c \in SubDirs(d) : dirExists[c]}
UnderEntry(e) == IF e \in Files THEN {e} ELSE FilesUnder(e)

Frame(d) == [dir |-> d, pc |-> "opendir", unread |-> {}, hThreads |-> << >>, i |-> 0]
Top == stack[Len(stack)]
SetTop(fr) == [stack EXCEPT ![Len(stack)] = fr]
Pop == SubSeq(stack, 1, Len(stack) - 1)
thread_count(fr) == Len(fr.hThreads)

\* The activation on top returns ret: to its caller, which drops the value,
\* or to main, which assigns it to result.
Return(ret) ==
  /\ stack' = Pop
  /\ IF Len(stack) = 1
     THEN mpc' = "cleanup" /\ result' = ret
     ELSE UNCHANGED <<mpc, result>>

\* lines 346-348: opendir(basePath), return 1 when it fails.
folder_opendir ==
  /\ stack # << >>
  /\ Top.pc = "opendir"
  /\ \E ok \in Outcomes :
       IF ok
       THEN /\ stack' = SetTop([Top EXCEPT !.pc = "readdir", !.unread = Entries(Top.dir)])
            /\ UNCHANGED <<mpc, result, errs, faults>>
       ELSE /\ Return(1)
            /\ errs' = AddErr(FilesUnder(Top.dir), "skip")
            /\ faults' = faults + 1
  /\ UNCHANGED <<type, path, method, charSigned, where, pool, bufs, exists, dirExists,
                 content, wf, th, passLog, removeCalled, rmdirCalled>>

\* lines 351-356: readdir yields e and stat fails: continue.
folder_stat_fails(e) ==
  /\ stack # << >>
  /\ Top.pc = "readdir"
  /\ e \in Top.unread
  /\ faults < MaxFaults
  /\ stack' = SetTop([Top EXCEPT !.unread = @ \ {e}])
  /\ errs' = AddErr(UnderEntry(e), "skip")
  /\ faults' = faults + 1
  /\ UNCHANGED <<type, path, method, charSigned, where, mpc, result, pool, bufs, exists,
                 dirExists, content, wf, th, passLog, removeCalled, rmdirCalled>>

\* folder_recurse that passes over a directory entry without the recursive call.
folder_recurse_skip(e) ==
  /\ stack # << >>
  /\ Top.pc = "readdir"
  /\ e \in Top.unread \cap Dirs
  /\ stack' = SetTop([Top EXCEPT !.unread = @ \ {e}])
  /\ UNCHANGED <<type, path, method, charSigned, where, mpc, result, pool, bufs, exists,
                 dirExists, content, wf, th, faults, passLog, errs, removeCalled,
                 rmdirCalled>>

\* lines 357-358: readdir yields the directory e: the recursive call.
folder_recurse(e) ==
  /\ stack # << >>
  /\ Top.pc = "readdir"
  /\ e \in Top.unread \cap Dirs
  /\ stack' = Append(SetTop([Top EXCEPT !.unread = @ \ {e}]), Frame(e))
  /\ UNCHANGED <<type, path, method, charSigned, where, mpc, result, pool, bufs, exists,
                 dirExists, content, wf, th, faults, passLog, errs, removeCalled,
                 rmdirCalled>>

\* folder_dispatch that gives up dispatching once a failure has been seen.
folder_dispatch_aborting(e) ==
  /\ stack # << >>
  /\ Top.pc = "readdir"
  /\ e \in Top.unread \cap Files
  /\ IF \E f \in Files : errs[f] # {}
     THEN /\ stack' = SetTop([Top EXCEPT !.unread = @ \ {e}])
          /\ UNCHANGED <<th, wf>>
     ELSE LET hs == Append(Top.hThreads, e)
          IN /\ stack' = SetTop([Top EXCEPT !.unread = @ \ {e}, !.hThreads = hs, !.i = 0,
                                   !.pc = IF Len(hs) = MAX_THREADS THEN "join_batch" ELSE "readdir"])
             /\ th' = [th EXCEPT ![e] = "running"]
             /\ wf' = [wf EXCEPT ![e].pc = "open"]
  /\ UNCHANGED <<type, path, method, charSigned, where, mpc, result, pool, bufs, exists,
                 dirExists, content, passLog, removeCalled, rmdirCalled, errs, faults>>

\* lines 359-369: readdir yields the file e: malloc, and when it succeeds
\* pthread_create; the batch is joined once it holds MAX_THREADS threads.
folder_dispatch(e) ==
  /\ stack # << >>
  /\ Top.pc = "readdir"
  /\ e \in Top.unread \cap Files
  /\ \E info \in Outcomes :
       IF info
       THEN LET hs == Append(Top.hThreads, e)
            IN /\ stack' = SetTop([Top EXCEPT !.unread = @ \ {e}, !.hThreads = hs, !.i = 0,
                                     !.pc = IF Len(hs) = MAX_THREADS THEN "join_batch" ELSE "readdir"])
               /\ th' = [th EXCEPT ![e] = "running"]
               /\ wf' = [wf EXCEPT ![e].pc = "open"]
               /\ UNCHANGED <<errs, faults>>
       ELSE /\ stack' = SetTop([Top EXCEPT !.unread = @ \ {e}])
            /\ errs' = AddErr({e}, "skip")
            /\ faults' = faults + 1
            /\ UNCHANGED <<th, wf>>
  /\ UNCHANGED <<type, path, method, charSigned, where, mpc, result, pool, bufs, exists,
                 dirExists, content, passLog, removeCalled, rmdirCalled>>

\* folder_join that does not wait for the thread to exit.
folder_join_nowait ==
  /\ stack # << >>
  /\ Top.pc \in {"join_batch", "join_final"}
  /\ Top.i < thread_count(Top)
  /\ th' = [th EXCEPT ![Top.hThreads[Top.i + 1]] = "joined"]
  /\ stack' = SetTop(IF Top.i + 1 < thread_count(Top)
                     THEN [Top EXCEPT !.i = @ + 1]
                     ELSE IF Top.pc = "join_batch"
                          THEN [Top EXCEPT !.i = 0, !.hThreads = << >>, !.pc = "readdir"]
                          ELSE [Top EXCEPT !.i = 0, !.hThreads = << >>, !.pc = "rmdir"])
  /\ UNCHANGED <<type, path, method, charSigned, where, mpc, result, pool, bufs, exists,
                 dirExists, content, wf, faults, passLog, errs, removeCalled, rmdirCalled>>

\* lines 366-367 and 375: pthread_join of hThreads[i], which blocks until
\* that thread has exited; after the last one of a full batch thread_count = 0.
folder_join ==
  /\ stack # << >>
  /\ Top.pc \in {"join_batch", "join_final"}
  /\ Top.i < thread_count(Top)
  /\ th[Top.hThreads[Top.i + 1]] = "exited"
  /\ th' = [th EXCEPT ![Top.hThreads[Top.i + 1]] = "joined"]
  /\ stack' = SetTop(IF Top.i + 1 < thread_count(Top)
                     THEN [Top EXCEPT !.i = @ + 1]
                     ELSE IF Top.pc = "join_batch"
                          THEN [Top EXCEPT !.i = 0, !.hThreads = << >>, !.pc = "readdir"]
                          ELSE [Top EXCEPT !.i = 0, !.hThreads = << >>, !.pc = "rmdir"])
  /\ UNCHANGED <<type, path, method, charSigned, where, mpc, result, pool, bufs, exists,
                 dirExists, content, wf, faults, passLog, errs, removeCalled, rmdirCalled>>

\* folder_closedir that goes on to rmdir without the final join.
folder_closedir_nojoin ==
  /\ stack # << >>
  /\ Top.pc = "readdir"
  /\ Top.unread = {}
  /\ stack' = SetTop([Top EXCEPT !.pc = "rmdir"])
  /\ UNCHANGED <<type, path, method, charSigned, where, mpc, result, pool, bufs, exists,
                 dirExists, content, wf, th, faults, passLog, errs, removeCalled,
                 rmdirCalled>>

\* lines 373-376: readdir yields NULL: closedir, then the join of the
\* threads of the last, partial batch.
folder_closedir ==
  /\ stack # << >>
  /\ Top.pc = "readdir"
  /\ Top.unread = {}
  /\ stack' = SetTop([Top EXCEPT !.pc = IF thread_count(Top) > 0 THEN "join_final" ELSE "rmdir"])
  /\ UNCHANGED <<type, path, method, charSigned, where, mpc, result, pool, bufs, exists,
                 dirExists, content, wf, th, faults, passLog, errs, removeCalled,
                 rmdirCalled>>

\* lines 377-378: rmdir(basePath), which removes an empty directory, and return 0.
folder_rmdir ==
  /\ stack # << >>
  /\ Top.pc = "rmdir"
  /\ \E ok \in Outcomes :
       /\ dirExists' = [dirExists EXCEPT ![Top.dir] = ~(ok /\ Entries(Top.dir) = {})]
       /\ faults' = faults + Cost(ok)
  /\ rmdirCalled' = rmdirCalled \cup {Top.dir}
  /\ Return(0)
  /\ UNCHANGED <<type, path, method, charSigned, where, pool, bufs, exists, content, wf, th,
                 passLog, errs, removeCalled>>

\* ------------------------------------------------------------------ main

\* init_buffers, lines 158-183: the four pattern buffers are filled and the
\* random buffer is seeded from rand() before srand.
init_buffers ==
  [b \in BufNames |->
     CASE b = "zero" -> Fill(0)
       [] b = "ff"   -> Fill(255)
       [] b = "aa"   -> Fill(170)
       [] b = "55"   -> Fill(85)
       [] OTHER      -> Fill(CHOOSE r \in RandBytes : TRUE)]

\* main lines 475-477.
main_init ==
  /\ mpc = "start"
  /\ pool' = "ready"
  /\ bufs' = init_buffers
  /\ mpc' = "dispatch"
  /\ UNCHANGED <<type, path, method, charSigned, where, result, exists, dirExists, content,
                 wf, th, stack, faults, passLog, errs, removeCalled, rmdirCalled>>

\* main lines 479-492: the call for the type, or result = 1.
main_dispatch ==
  /\ mpc = "dispatch"
  /\ CASE type = "--file" ->
            /\ mpc' = "file"
            /\ wf' = [wf EXCEPT ![path].pc = "open"]
            /\ UNCHANGED <<stack, result>>
       [] type = "--folder" ->
            /\ mpc' = "folder"
            /\ stack' = << Frame("root") >>
            /\ UNCHANGED <<wf, result>>
       [] type = "--disk" ->
            /\ mpc' = "disk"
            /\ wf' = [wf EXCEPT !["disk"].pc = "open"]
            /\ UNCHANGED <<stack, result>>
       [] OTHER ->
            /\ mpc' = "cleanup"
            /\ result' = 1
            /\ UNCHANGED <<wf, stack>>
  /\ UNCHANGED <<type, path, method, charSigned, where, pool, bufs, exists, dirExists,
                 content, th, faults, passLog, errs, removeCalled, rmdirCalled>>

\* main_cleanup that does not wait for the wipe to return.
main_cleanup_early ==
  /\ mpc \in {"file", "folder", "disk", "cleanup"}
  /\ pool' = "freed"
  /\ mpc' = "done"
  /\ UNCHANGED <<type, path, method, charSigned, where, result, bufs, exists, dirExists,
                 content, wf, th, stack, faults, passLog, errs, removeCalled, rmdirCalled>>

\* main lines 494-497: cleanup_buffers and return result.
main_cleanup ==
  /\ mpc = "cleanup"
  /\ pool' = "freed"
  /\ mpc' = "done"
  /\ UNCHANGED <<type, path, method, charSigned, where, result, bufs, exists, dirExists,
                 content, wf, th, stack, faults, passLog, errs, removeCalled, rmdirCalled>>

Next ==
  \/ main_init
  \/ main_dispatch
  \/ main_cleanup
  \/ \E t \in Files : wipe_file_open(t)
  \/ \E t \in Targets : overwrite_pass_simd(t)
  \/ \E t \in Targets : overwrite_pass_regen(t)
  \/ \E t \in Targets : overwrite_pass_loop(t)
  \/ \E t \in Files : wipe_file_remove(t)
  \/ wipe_disk_open
  \/ wipe_disk_close
  \/ folder_opendir
  \/ \E e \in Files \cup Dirs : folder_stat_fails(e)
  \/ \E e \in Dirs : folder_recurse(e)
  \/ \E e \in Files : folder_dispatch(e)
  \/ folder_join
  \/ folder_closedir
  \/ folder_rmdir

Spec == Init /\ [][Next]_vars

\* ================================================================ claims

Supported == {"--clear", "--purge", "--destroy-sw"}
Running == {f \in Files : th[f] = "running"}
\* A pass on t has returned and the next has not been entered.
PassDone(t) == wf[t].pc = "passes" /\ wf[t].k >= 1
LastPass(t) == passLog[t][Len(passLog[t])]

\* C1: during a directory wipe, nested calls included, at most MAX_THREADS
\* worker threads that were created have not yet finished.
C1_BoundedWorkers == Cardinality(Running) <= MAX_THREADS

\* C2: remove(filepath) is only ever called after every pass ran without a
\* write or flush error.
C2_RemoveOnlyAfterCleanPasses ==
  \A t \in removeCalled : errs[t] \cap {"short", "io"} = {}

\* C3: for a non-empty file wipe_file runs exactly the method's schedule, in
\* order, one pass at a time, with pass index 1..n and totalPasses n:
\* 1 pass of 0x00 for --clear, 3 passes for --purge,
\* 0x00 0xFF 0x00 0xAA 0x55 0xAA 'R' for --destroy-sw.
C3_Count == CASE method = "--clear" -> 1 [] method = "--purge" -> 3 [] OTHER -> 7
C3_Patterns ==
  CASE method = "--clear"      -> << {0} >>
    [] method = "--purge"      -> << {0, 255, 170, 85, 82}, {0, 255, 170, 85, 82},
                                     {0, 255, 170, 85, 82} >>
    [] OTHER                   -> << {0}, {255}, {0}, {170}, {85}, {170}, {82} >>
C3_ScheduleInOrder ==
  \A t \in Files :
    (method \in Supported /\ wf[t].file_size > 0) =>
      /\ Len(passLog[t]) <= C3_Count
      /\ \A i \in 1..Len(passLog[t]) :
           /\ passLog[t][i].pass_num = i
           /\ passLog[t][i].total_passes = C3_Count
           /\ passLog[t][i].pattern \in C3_Patterns[i]
      \* a pass is entered only when the one before it has returned
      /\ Len(passLog[t]) = wf[t].k + (IF wf[t].pc = "writing" THEN 1 ELSE 0)
      /\ (wf[t].pc = "returned" => Len(passLog[t]) = C3_Count)
C3_Witness ==
  \E t \in Files :
    /\ method = "--destroy-sw" /\ wf[t].file_size > 0
    /\ wf[t].pc = "returned" /\ Len(passLog[t]) = 7

\* C4: after a pass with a fixed pattern P (0x00, 0xFF, 0xAA, 0x55) whose
\* writes and flush all succeeded, the buffer the pass acquired holds P in
\* every byte and so does every byte of the target.
C4_FixedPatternWritten ==
  \A t \in Targets :
    (PassDone(t) /\ LastPass(t).pattern # RANDOM /\ errs[t] = {}) =>
      /\ bufs[wf[t].buffer] = [i \in 1..BUFFER_SIZE |-> LastPass(t).pattern]
      /\ \A i \in 1..Len(content[t]) : content[t][i] = LastPass(t).pattern

\* C5: a pass whose writes did not fail leaves the target's offset at size
\* and stops when written = size.
C5_OffsetEqualsSize ==
  \A t \in Targets :
    (PassDone(t) /\ "io" \notin errs[t] /\ "size" \notin errs[t]) =>
      /\ wf[t].total_written = wf[t].file_size
      /\ wf[t].pos = wf[t].file_size

\* C6: after a short write the remainder is written again: the written
\* counter has advanced by the bytes accepted, and when the first pass has
\* returned without a write error no byte of [0, size) still holds old data.
C6_ShortWriteReissued ==
  \A t \in Targets :
    (PassDone(t) /\ "io" \notin errs[t]) =>
      /\ wf[t].total_written = wf[t].pos
      /\ \A i \in 1..Len(content[t]) : content[t][i] # OLD

\* C7: with a method other than --clear, --purge, --destroy-sw the process
\* exits with a non-zero code, in file, folder and device mode (stated for
\* the runs in which no call fails, where only the method can make it fail).
C7_UnsupportedMethodFails ==
  (mpc = "done" /\ method \notin Supported /\ faults = 0) => result # 0

\* C8: the exit code is 0 only when no open, size, write or delete step
\* failed, in particular in folder mode, where worker threads wipe the files.
C8_ExitZeroOnlyOnSuccess ==
  (type = "--folder" /\ mpc = "done" /\ result = 0) =>
    \A f \in Files : errs[f] \cap {"open", "size", "io", "delete"} = {}

\* C9: rmdir is called on a directory only when every file at and below it
\* was wiped and deleted.
C9_RmdirOnlyWhenAllWiped ==
  \A d \in rmdirCalled : \A f \in FilesUnder(d) : errs[f] = {} /\ ~exists[f]

\* C10: when the directory wipe has returned, every file whose own wipe met
\* no failure was dispatched to a worker that was joined, was overwritten
\* by all passes of a supported method up to its last byte, and is deleted,
\* whatever failed for other files; and a file whose remove succeeded is
\* absent in every later state.
C10_FailureIsolation ==
  /\ (type = "--folder" /\ mpc \in {"cleanup", "done"}) =>
       \A f \in Files :
         errs[f] = {} =>
           /\ th[f] = "joined"
           /\ f \in removeCalled
           /\ ~exists[f]
           /\ (method \in Supported /\ FileLen(f) > 0) =>
                /\ wf[f].k = Len(WipePasses(method))
                /\ wf[f].pos = FileLen(f)
  /\ \A f \in removeCalled : "delete" \notin errs[f] => ~exists[f]
C10_Witness ==
  /\ type = "--folder" /\ mpc = "done" /\ method \in Supported
  /\ \A f \in Files : where[f] = "root"
  /\ \E f \in Files :
       /\ "open" \in errs[f] /\ exists[f]
       /\ \A g \in Files \ {f} : th[g] = "joined" /\ ~exists[g]

\* The file task on f has been started and wipe_file has not returned.
Active(f) == wf[f].pc \in {"open", "passes", "writing"}
\* The file tasks of the batch an activation holds in hThreads.
Batch(fr) == {fr.hThreads[n] : n \in 1..Len(fr.hThreads)}
\* The activations of wipe_folder_recursive on directory d.
Levels(d) == {j \in 1..Len(stack) : stack[j].dir = d}

\* C11: within one directory level the dispatch is a generational barrier:
\* a batch holds at most MAX_THREADS file tasks, every file task of the
\* level that has not finished belongs to the level's current batch, and
\* so the first task of a batch is never started while a task of the
\* batch before it still runs.
C11_BatchBarrier ==
  /\ \A j \in 1..Len(stack) : thread_count(stack[j]) <= MAX_THREADS
  /\ type = "--folder" =>
       \A f \in Files :
         Active(f) => \E j \in Levels(where[f]) : f \in Batch(stack[j])
C11_Witness ==
  /\ type = "--folder" /\ stack # << >>
  /\ thread_count(Top) = 1
  /\ Active(Top.hThreads[1])
  /\ Cardinality({g \in FilesIn(Top.dir) : th[g] = "joined"}) = MAX_THREADS

\* C12: rmdir of a directory is called only after every file task
\* dispatched at that level has finished and every recursive call for a
\* child directory has returned; no file task of a level is unfinished
\* when the level's rmdir is called or after wipe_folder_recursive has
\* returned for it.
C12_RmdirAfterLevelDone ==
  type = "--folder" =>
    /\ \A j \in 1..Len(stack) :
         stack[j].pc = "rmdir" =>
           /\ j = Len(stack)
           /\ stack[j].unread = {} /\ stack[j].hThreads = << >>
           /\ \A f \in FilesIn(stack[j].dir) : ~Active(f) /\ th[f] \in {"none", "joined"}
    /\ \A d \in Dirs :
         (mpc \in {"folder", "cleanup", "done"} /\ Levels(d) = {}
            /\ (d \in rmdirCalled \/ \E f \in FilesIn(d) : th[f] # "none")) =>
           \A f \in FilesIn(d) : ~Active(f) /\ th[f] \in {"none", "joined"}
C12_Witness ==
  /\ type = "--folder" /\ stack # << >>
  /\ Top.dir = "root" /\ Top.pc = "rmdir"
  /\ "sub" \in rmdirCalled
  /\ \E f \in FilesIn("root") : th[f] = "joined"
  /\ \E f \in FilesIn("sub") : th[f] = "joined"

\* C13: when every file and directory operation succeeds, the directory
\* wipe of any tree (with a file of length 0, a nested sub-directory, an
\* empty sub-directory) ends with no entry left: every file was given its
\* passes by a joined file task and deleted, every sub-directory and the
\* root were removed; an empty directory is removed without a file task.
C13_NoResidue ==
  (type = "--folder" /\ mpc \in {"cleanup", "done"} /\ faults = 0) =>
    /\ result = 0
    /\ \A f \in Files :
         /\ th[f] = "joined" /\ f \in removeCalled /\ ~exists[f]
         /\ (method \in Supported /\ FileLen(f) > 0) =>
              wf[f].k = Len(WipePasses(method)) /\ wf[f].pos = FileLen(f)
    /\ \A d \in Dirs : d \in rmdirCalled /\ ~dirExists[d]
C13_Witness ==
  /\ type = "--folder" /\ mpc = "done" /\ faults = 0 /\ method = "--purge"
  /\ FilesIn("sub") = {}
  /\ ~dirExists["sub"] /\ ~dirExists["root"]
  /\ \A f \in Files : ~exists[f]

\* The targets whose RANDOM pass is between the regeneration of
\* g_random_buffer and the end of its last write from it.
InRandomPass == {t \in Targets : wf[t].pc = "writing" /\ wf[t].buffer = "random"}

\* C14: no data race on the RANDOM buffer: while the RANDOM pass of one
\* worker is between its regeneration and the end of its last write, no
\* other pass regenerates the buffer, so no two passes are inside that
\* window at once (stated for the runs in which no call fails).
C14_RandomBufferExclusive == faults = 0 => Cardinality(InRandomPass) <= 1

\* C15: the device wipe runs the schedule of the file wipe for every
\* supported method (1, 3 or 7 passes) and calls no remove; it returns 0
\* only when all passes of that schedule were run (stated for the runs in
\* which no call fails).
C15_DiskRunsFileSchedule ==
  (type = "--disk" /\ method \in Supported /\ wf["disk"].file_size > 0
     /\ mpc = "done" /\ result = 0 /\ faults = 0) =>
    /\ passLog["disk"] = WipePasses(method)
    /\ "disk" \notin removeCalled

\* C16: when the file cannot be opened wipe_file returns 1 and nothing
\* else happens to the file: no pass is called, remove is not called (so
\* no delete failure), the file stays, and in file mode the exit code is 1.
C16_OpenFailureOnly ==
  \A t \in Files :
    "open" \in errs[t] =>
      /\ wf[t].pc = "returned" /\ wf[t].ret = 1
      /\ passLog[t] = << >>
      /\ t \notin removeCalled /\ "delete" \notin errs[t]
      /\ exists[t] /\ errs[t] = {"open"}
      /\ (type = "--file" /\ t = path) => (mpc \in {"cleanup", "done"} /\ result = 1)
C16_Witness ==
  /\ type = "--file" /\ mpc = "done" /\ result = 1
  /\ method \in Supported
  /\ "open" \in errs[path] /\ exists[path] /\ path \notin removeCalled

\* C17: every overwrite pass, through a FILE* or through a raw descriptor,
\* calls the flush (fflush, then fsync) after its last write and before
\* it returns, so that no next pass, remove or close starts without it
\* (stated for the runs in which no call fails).
C17_FlushBeforeReturn ==
  \A t \in Targets :
    (PassDone(t) /\ wf[t].file_size > 0 /\ faults = 0) => wf[t].flushed

\* C18: at each directory level the sub-directories are recursed into, to
\* completion, before any file task of that level is dispatched: while
\* the walk is inside the recursive call for a sub-directory of a level,
\* no file task of that level is unfinished.
C18_SubDirsBeforeFiles ==
  \A j \in 1..Len(stack) :
    j < Len(stack) => \A f \in FilesIn(stack[j].dir) : ~Active(f)

\* C19: the buffers are initialized once, before any wipe begins, and
\* freed once, after all wipes have returned: nothing is wiped before
\* init_buffers, no pass is running or can start once cleanup_buffers has
\* been called, in any mode, and the four fixed-pattern buffers hold their
\* fill from initialization on.
C19_PoolLifecycle ==
  /\ (pool = "uninit") <=> (mpc = "start")
  /\ (pool = "freed") <=> (mpc = "done")
  /\ pool = "uninit" =>
       /\ \A t \in Targets : wf[t].pc = "idle" /\ passLog[t] = << >>
       /\ stack = << >>
  /\ pool = "freed" =>
       /\ \A t \in Targets : wf[t].pc \in {"idle", "returned"}
       /\ \A f \in Files : th[f] \in {"none", "joined"}
       /\ stack = << >>
  /\ pool # "uninit" =>
       /\ bufs["zero"] = Fill(ZERO) /\ bufs["ff"] = Fill(ONES)
       /\ bufs["aa"] = Fill(ALT_AA) /\ bufs["55"] = Fill(ALT_55)
C19_Witness ==
  /\ pool = "freed" /\ type = "--folder" /\ method = "--purge"
  /\ \A f \in Files : th[f] = "joined"
  /\ \E f \in Files : Len(passLog[f]) = 3

\* C20: a file of non-zero length is never deleted without having been
\* overwritten: whatever the method string, when remove is called on a
\* file whose file_size > 0, wipe_file has run 1, 3 or 7 passes on it
\* (stated for the runs in which no call fails).
C20_NoDeleteWithoutPass ==
  \A t \in removeCalled :
    (wf[t].file_size > 0 /\ faults = 0) => wf[t].k \in {1, 3, 7}

====
